---- MODULE Spec2Model ----
(***************************************************************************)
(* State-machine model of slurm_plugin/fleet_manager.py: the factory       *)
(* FleetManagerFactory.get_manager, FleetManager.launch_ec2_instances and  *)
(* its two strategies (Ec2RunInstancesManager, Ec2CreateFleetManager),     *)
(* including the describe-instances retry loop of the create-fleet         *)
(* strategy.                                                               *)
(*                                                                         *)
(* Python dicts are functions over a set of string keys (records); a key   *)
(* lookup d[k] with k outside DOMAIN d is a KeyError.  Lists are           *)
(* sequences.  Durations are in milliseconds.  f-strings are tuples of     *)
(* their parts.  The logger is the set of records it has emitted, each     *)
(* with the JobID value the logging filter attached to it.                 *)
(***************************************************************************)
EXTENDS Integers, Sequences, FiniteSets, TLC

(***************************************************************************)
(* Bounds of the model.                                                    *)
(***************************************************************************)
\* largest number of instances the provider launches in one call
MaxIds == 2
\* largest count passed to launch_ec2_instances when the configuration varies
MaxCount == 2
\* largest number of instance types / subnet ids in a compute resource
MaxTypes == 2
\* largest number of ClientErrors describe_instances raises during one call
MaxFaults == 1

(***************************************************************************)
(* Program constants.                                                      *)
(***************************************************************************)
retries == 5
InitialWaitMs == 100
BackoffBaseMs == 300
JitterRangeMs == 500

None == "None"
EmptyDict == <<>>

(***************************************************************************)
(* dict helpers                                                            *)
(***************************************************************************)
\* d.get(k, default)
DictGet(d, k, default) == IF k \in DOMAIN d THEN d[k] ELSE default

\* dict.update keeping keys that already exist (a wrong merge)
DictUpdateKeepExisting(d, o) ==
    [k \in DOMAIN d \cup DOMAIN o |-> IF k \in DOMAIN d THEN d[k] ELSE o[k]]

\* d.update(o): every key of o replaces, whole value, the key of d
DictUpdate(d, o) ==
    [k \in DOMAIN d \cup DOMAIN o |-> IF k \in DOMAIN o THEN o[k] ELSE d[k]]

\* a dict without key k
DictWithout(d, k) == [x \in DOMAIN d \ {k} |-> d[x]]

RECURSIVE Pow2(_)
Pow2(n) == IF n = 0 THEN 1 ELSE 2 * Pow2(n - 1)

SeqToSet(s) == {s[i] : i \in DOMAIN s}

\* number of positions of s holding x
Occurrences(s, x) == Cardinality({i \in DOMAIN s : s[i] = x})

\* s without repeated elements, first occurrences kept in order
RECURSIVE Distinct(_)
Distinct(s) ==
    IF s = <<>> THEN <<>>
    ELSE LET init == Distinct(SubSeq(s, 1, Len(s) - 1))
             last == s[Len(s)]
         IN IF last \in SeqToSet(init) THEN init ELSE Append(init, last)

(***************************************************************************)
(* EC2Instance                                                             *)
(***************************************************************************)
\* common.ec2_utils.get_private_ip_address_and_dns_name: KeyError when the
\* private ip or the private dns name is absent
get_private_ip_address_and_dns_name(instance_info) ==
    IF {"PrivateIpAddress", "PrivateDnsName"} \subseteq DOMAIN instance_info
    THEN [raised |-> None,
          private_ip |-> instance_info["PrivateIpAddress"],
          private_dns_name |-> instance_info["PrivateDnsName"]]
    ELSE [raised |-> "KeyError"]

\* private_dns_name.split(".")[0]: a dns name is the sequence of its labels
Hostname(private_dns_name) == Head(private_dns_name)

\* EC2Instance.from_describe_instance_data
from_describe_instance_data(instance_info) ==
    LET net == get_private_ip_address_and_dns_name(instance_info)
    IN IF net.raised # None
          \/ "InstanceId" \notin DOMAIN instance_info
          \/ "LaunchTime" \notin DOMAIN instance_info
       THEN [raised |-> "KeyError"]
       ELSE [raised |-> None,
             instance |-> [id |-> instance_info["InstanceId"],
                           private_ip |-> net.private_ip,
                           hostname |-> Hostname(net.private_dns_name),
                           launch_time |-> instance_info["LaunchTime"]]]

(***************************************************************************)
(* FleetManagerFactory                                                     *)
(***************************************************************************)
NoManager == [class |-> None]

Manager(class, q, cr, config, aon, overrides) ==
    [class |-> class,
     _cluster_name |-> "cluster",
     _queue |-> q,
     _compute_resource |-> cr,
     _compute_resource_config |-> config,
     _all_or_nothing |-> aon,
     _launch_overrides |-> overrides]

\* get_manager with the two strategies exchanged
get_manager_Swapped(fc, q, cr, aon, rio, cfo) ==
    IF q \notin DOMAIN fc THEN [raised |-> "FleetManagerException", msg |-> "Unable to find queue or compute resource"]
    ELSE IF cr \notin DOMAIN fc[q] THEN [raised |-> "FleetManagerException", msg |-> "Unable to find queue or compute resource"]
    ELSE IF "Api" \notin DOMAIN fc[q][cr] THEN [raised |-> "FleetManagerException", msg |-> "Unable to find 'Api' key"]
    ELSE LET config == fc[q][cr]
             api == config["Api"]
         IN IF api = "run-instances"
            THEN [raised |-> None,
                  manager |-> Manager("Ec2CreateFleetManager", q, cr, config, aon,
                                      DictGet(DictGet(cfo, q, EmptyDict), cr, EmptyDict))]
            ELSE IF api = "create-fleet"
            THEN [raised |-> None,
                  manager |-> Manager("Ec2RunInstancesManager", q, cr, config, aon,
                                      DictGet(DictGet(rio, q, EmptyDict), cr, EmptyDict))]
            ELSE [raised |-> "FleetManagerException", msg |-> "Unsupported Api"]

\* FleetManagerFactory.get_manager
get_manager(fc, q, cr, aon, rio, cfo) ==
    IF q \notin DOMAIN fc THEN [raised |-> "FleetManagerException", msg |-> "Unable to find queue or compute resource"]
    ELSE IF cr \notin DOMAIN fc[q] THEN [raised |-> "FleetManagerException", msg |-> "Unable to find queue or compute resource"]
    ELSE IF "Api" \notin DOMAIN fc[q][cr] THEN [raised |-> "FleetManagerException", msg |-> "Unable to find 'Api' key"]
    ELSE LET config == fc[q][cr]
             api == config["Api"]
         IN IF api = "create-fleet"
            THEN [raised |-> None,
                  manager |-> Manager("Ec2CreateFleetManager", q, cr, config, aon,
                                      DictGet(DictGet(cfo, q, EmptyDict), cr, EmptyDict))]
            ELSE IF api = "run-instances"
            THEN [raised |-> None,
                  manager |-> Manager("Ec2RunInstancesManager", q, cr, config, aon,
                                      DictGet(DictGet(rio, q, EmptyDict), cr, EmptyDict))]
            ELSE [raised |-> "FleetManagerException", msg |-> "Unsupported Api"]

(***************************************************************************)
(* Ec2RunInstancesManager                                                  *)
(***************************************************************************)
\* f"{self._cluster_name}-{self._queue}-{self._compute_resource}"
LaunchTemplateName(m) == <<m._cluster_name, m._queue, m._compute_resource>>

\* the launch_params literal of Ec2RunInstancesManager._evaluate_launch_params
RunInstancesDefaults(m, n) ==
    [MinCount |-> IF ~m._all_or_nothing THEN 1 ELSE n,
     MaxCount |-> n,
     LaunchTemplate |-> [LaunchTemplateName |-> LaunchTemplateName(m),
                         Version |-> "$Latest"]]

\* Ec2RunInstancesManager._evaluate_launch_params
Ec2RunInstancesManager_evaluate_launch_params(m, n) ==
    [raised |-> None,
     launch_params |-> DictUpdate(RunInstancesDefaults(m, n), m._launch_overrides),
     logs |-> IF DOMAIN m._launch_overrides # {}
              THEN {[level |-> "INFO", msg |-> "Found RunInstances parameters override"]}
              ELSE {}]

(***************************************************************************)
(* Ec2CreateFleetManager                                                   *)
(***************************************************************************)
\* str(x)
Str(x) == <<"str", x>>

\* the dict `overrides` before the loops of _evaluate_template_overrides
TemplateOverridesBase(config) ==
    IF config["CapacityType"] = "spot" /\ DictGet(config, "MaxPrice", 0) # 0
    THEN [MaxPrice |-> Str(config["MaxPrice"])]
    ELSE EmptyDict

\* the inner loop of _evaluate_template_overrides over subnet_ids[j..]
RECURSIVE SubnetLoop(_, _, _, _)
SubnetLoop(base, instance_type, subnet_ids, j) ==
    IF j > Len(subnet_ids) THEN <<>>
    ELSE <<DictUpdate(base, [InstanceType |-> instance_type["InstanceType"],
                             SubnetId |-> subnet_ids[j]])>>
         \o SubnetLoop(base, instance_type, subnet_ids, j + 1)

\* the outer loop of _evaluate_template_overrides over Instances[i..]
RECURSIVE InstanceTypeLoop(_, _, _)
InstanceTypeLoop(base, config, i) ==
    IF i > Len(config["Instances"]) THEN <<>>
    ELSE SubnetLoop(base, config["Instances"][i], config["Networking"]["SubnetIds"], 1)
         \o InstanceTypeLoop(base, config, i + 1)

\* Ec2CreateFleetManager._evaluate_template_overrides
\* (`overrides` is updated in place, but both keys are rewritten in every
\* iteration, so each appended copy is the base plus the current pair)
evaluate_template_overrides(config) ==
    InstanceTypeLoop(TemplateOverridesBase(config), config, 1)

\* the keys whose lookup raises KeyError in _evaluate_template_overrides
TemplateOverridesMissingKey(config) ==
    /\ Len(config["Instances"]) > 0
    /\ \/ "Networking" \notin DOMAIN config
       \/ "SubnetIds" \notin DOMAIN config["Networking"]
       \/ /\ Len(config["Networking"]["SubnetIds"]) > 0
          /\ \E i \in DOMAIN config["Instances"] :
                 "InstanceType" \notin DOMAIN config["Instances"][i]

\* Ec2CreateFleetManager._uses_single_instance_type
uses_single_instance_type(config) == Len(config["Instances"]) = 1

\* Ec2CreateFleetManager._uses_single_az
uses_single_az(config) ==
    Len(DictGet(DictGet(config, "Networking", EmptyDict), "SubnetIds", <<>>)) = 1

\* admission that asks for both a single subnet and a single instance type
IncludesMinTargetCapacity_Both(config) ==
    uses_single_az(config) /\ uses_single_instance_type(config)

\* the condition of line 302
IncludesMinTargetCapacity(config) ==
    uses_single_az(config) \/ uses_single_instance_type(config)

\* common_launch_options of Ec2CreateFleetManager._evaluate_launch_params
CommonLaunchOptions(m, n) ==
    LET config == m._compute_resource_config
        base == [AllocationStrategy |-> config["AllocationStrategy"],
                 SingleInstanceType |-> uses_single_instance_type(config),
                 SingleAvailabilityZone |-> uses_single_az(config)]
    IN IF IncludesMinTargetCapacity(config)
       THEN DictUpdate(base, [MinTargetCapacity |-> IF m._all_or_nothing THEN n ELSE 1])
       ELSE base

\* the condition of the warning of line 306
WarnsAllOrNothing(m) ==
    /\ ~uses_single_az(m._compute_resource_config)
    /\ ~uses_single_instance_type(m._compute_resource_config)
    /\ m._all_or_nothing

\* launch_options of Ec2CreateFleetManager._evaluate_launch_params
LaunchOptions(m, n) ==
    IF m._compute_resource_config["CapacityType"] = "spot"
    THEN [SpotOptions |-> CommonLaunchOptions(m, n)]
    ELSE [OnDemandOptions |->
              DictUpdate(CommonLaunchOptions(m, n),
                         [CapacityReservationOptions |->
                              [UsageStrategy |-> "use-capacity-reservations-first"]])]

\* the launch_params literal of Ec2CreateFleetManager._evaluate_launch_params
CreateFleetDefaults(m, n) ==
    DictUpdate(
        [LaunchTemplateConfigs |->
             <<[LaunchTemplateSpecification |->
                    [LaunchTemplateName |-> LaunchTemplateName(m), Version |-> "$Latest"],
                Overrides |-> evaluate_template_overrides(m._compute_resource_config)]>>,
         TargetCapacitySpecification |->
             [TotalTargetCapacity |-> n,
              DefaultTargetCapacityType |-> m._compute_resource_config["CapacityType"]],
         Type |-> "instant"],
        LaunchOptions(m, n))

\* the message of the warning of lines 307-310
AllOrNothingWarning ==
    "All-or-Nothing is only available with single instance type compute resources or single subnet queues"

\* Ec2CreateFleetManager._evaluate_launch_params
Ec2CreateFleetManager_evaluate_launch_params(m, n) ==
    LET config == m._compute_resource_config
        failed == [level |-> "ERROR", msg |-> "Unable to find key in the configuration"]
        warned == [level |-> "WARNING", msg |-> AllOrNothingWarning]
    IN IF {"AllocationStrategy", "Instances"} \ DOMAIN config # {}
       THEN [raised |-> "FleetManagerException", logs |-> {failed}]
       ELSE LET warning == IF WarnsAllOrNothing(m) THEN {warned} ELSE {}
            IN IF "CapacityType" \notin DOMAIN config \/ TemplateOverridesMissingKey(config)
               THEN [raised |-> "FleetManagerException", logs |-> warning \cup {failed}]
               ELSE [raised |-> None,
                     launch_params |-> DictUpdate(CreateFleetDefaults(m, n), m._launch_overrides),
                     logs |-> warning \cup
                              (IF DOMAIN m._launch_overrides # {}
                               THEN {[level |-> "INFO", msg |-> "Found CreateFleet parameters override"]}
                               ELSE {})]

\* FleetManager._evaluate_launch_params, dispatched on the class
evaluate_launch_params(m, n) ==
    IF m.class = "Ec2CreateFleetManager"
    THEN Ec2CreateFleetManager_evaluate_launch_params(m, n)
    ELSE Ec2RunInstancesManager_evaluate_launch_params(m, n)

(***************************************************************************)
(* The provider: instance ids and raw instance descriptions                *)
(***************************************************************************)
InstanceId(k) == <<"i", k>>

\* a description carrying every required field
CompleteInfo(id) ==
    [InstanceId |-> id,
     PrivateIpAddress |-> <<"ip", id>>,
     PrivateDnsName |-> <<id, "ec2", "internal">>,
     LaunchTime |-> "launch-time"]

\* descriptions of an instance that is not fully registered yet
PartialInfos(id) ==
    {[InstanceId |-> id, LaunchTime |-> "launch-time"],
     DictWithout(CompleteInfo(id), "LaunchTime")}

Descriptions(id) == {CompleteInfo(id)} \cup PartialInfos(id)

\* the descriptions a launch of n instances can come with, one per instance
RECURSIVE InstanceLists(_)
InstanceLists(n) ==
    IF n = 0 THEN {<<>>}
    ELSE {Append(l, d) : l \in InstanceLists(n - 1), d \in Descriptions(InstanceId(n))}

\* what describe_instances can answer for a list of ids: a description of some
\* of them, each at most once, in the order asked
RECURSIVE DescribeResponsesOf(_)
DescribeResponsesOf(ids) ==
    IF ids = <<>> THEN {<<>>}
    ELSE LET rest == DescribeResponsesOf(Tail(ids))
         IN rest \cup {<<d>> \o r : d \in Descriptions(Head(ids)), r \in rest}

DescribeResponses(ids) == DescribeResponsesOf(Distinct(ids))

\* fault_at = NoFault: the paginator ends normally; fault_at = k: it raises
\* ClientError after yielding k descriptions
NoFault == -1
FaultPositions(response, faults) ==
    {NoFault} \cup (IF faults < MaxFaults THEN 0 .. Len(response) ELSE {})

\* secrets.randbelow(500), sampled at its two ends
Jitters == {0, JitterRangeMs - 1}

(***************************************************************************)
(* Ec2CreateFleetManager: metadata reconciliation                          *)
(***************************************************************************)
\* [inst_id for instance in instances for inst_id in instance["InstanceIds"]]
RECURSIVE FlattenInstanceIds(_)
FlattenInstanceIds(groups) ==
    IF groups = <<>> THEN <<>>
    ELSE Head(groups)["InstanceIds"] \o FlattenInstanceIds(Tail(groups))

InstanceIdsOf(infos) == [i \in DOMAIN infos |-> infos[i]["InstanceId"]]

IsComplete(instance_info) == from_describe_instance_data(instance_info).raised = None
IsPartial(instance_info) == ~IsComplete(instance_info)

\* the descriptions the for loop of line 422 processes
Processed(response, fault_at) ==
    IF fault_at = NoFault THEN response ELSE SubSeq(response, 1, fault_at)

\* a handler of ClientError that forgets the queried ids
retrieve_instances_info_from_ec2_DropOnFault(instance_ids, response, fault_at) ==
    IF instance_ids = <<>>
    THEN [complete_instances |-> <<>>, partial_instance_ids |-> <<>>]
    ELSE [complete_instances |-> SelectSeq(Processed(response, fault_at), IsComplete),
          partial_instance_ids |->
              InstanceIdsOf(SelectSeq(Processed(response, fault_at), IsPartial))]

\* Ec2CreateFleetManager._retrieve_instances_info_from_ec2
retrieve_instances_info_from_ec2(instance_ids, response, fault_at) ==
    IF instance_ids = <<>>
    THEN [complete_instances |-> <<>>, partial_instance_ids |-> <<>>]
    ELSE [complete_instances |-> SelectSeq(Processed(response, fault_at), IsComplete),
          partial_instance_ids |->
              InstanceIdsOf(SelectSeq(Processed(response, fault_at), IsPartial))
              \o (IF fault_at # NoFault THEN instance_ids ELSE <<>>)]

\* a loop that allows one attempt too many
LoopGuard_OffByOne(attempts, partial) == attempts <= retries /\ partial # <<>>

\* the condition of the while loop of line 397
LoopGuard(attempts, partial) == attempts < retries /\ partial # <<>>

\* a backoff that grows linearly
Backoff_Linear(attempts, jitter) == BackoffBaseMs * attempts + jitter

\* 0.3 * 2**attempt_count + secrets.randbelow(500) / 1000, in milliseconds
Backoff(attempts, jitter) == BackoffBaseMs * Pow2(attempts) + jitter

\* the condition of line 401
SleepsAfter(attempts) == attempts < retries

\* what one describe query showed of the provider
Seen(ids, response, fault_at) ==
    LET processed == Processed(response, fault_at)
    IN (IF \E i \in DOMAIN processed : IsComplete(processed[i]) THEN {"complete"} ELSE {})
       \cup (IF \E i \in DOMAIN processed : IsPartial(processed[i]) THEN {"missing_field"} ELSE {})
       \cup (IF fault_at # NoFault THEN {"fault"} ELSE {})
       \cup (IF fault_at = NoFault /\ SeqToSet(ids) # SeqToSet(InstanceIdsOf(response))
             THEN {"absent"} ELSE {})

(***************************************************************************)
(* The calls the model makes: the arguments of get_manager and             *)
(* launch_ec2_instances, and the capacity the provider has.  The           *)
(* configuration varies with a provider that has no capacity               *)
(* (ShapingCalls); the provider's capacity varies under one configuration  *)
(* (ProviderCalls).                                                        *)
(***************************************************************************)
InstanceTypes(n) == [i \in 1 .. n |-> [InstanceType |-> <<"type", i>>]]
SubnetIds(n) == [i \in 1 .. n |-> <<"subnet", i>>]

ComputeResourceConfig(api, capacity_type, types, subnets) ==
    [Api |-> api,
     CapacityType |-> capacity_type,
     AllocationStrategy |-> "lowest-price",
     Instances |-> InstanceTypes(types),
     Networking |-> [SubnetIds |-> SubnetIds(subnets)]]

CapacityTypes == {"spot", "on-demand"}

CompleteConfigs(api) ==
    {ComputeResourceConfig(api, c, t, n) : c \in CapacityTypes, t \in 0 .. MaxTypes, n \in 0 .. MaxTypes}
    \cup {DictUpdate(ComputeResourceConfig(api, c, 1, MaxTypes), [MaxPrice |-> 3]) : c \in CapacityTypes}

IncompleteConfigs(api) ==
    {DictWithout(ComputeResourceConfig(api, "spot", MaxTypes, MaxTypes), k) :
         k \in {"AllocationStrategy", "Instances", "CapacityType", "Networking"}}
    \cup {DictUpdate(ComputeResourceConfig(api, "spot", t, MaxTypes), [Networking |-> EmptyDict]) :
              t \in {0, MaxTypes}}

RunInstancesOverrideChoices ==
    {EmptyDict,
     [queue1 |-> [cr1 |-> [MinCount |-> 7]]],
     [queue1 |-> [cr1 |-> [LaunchTemplate |-> [Version |-> "1"], InstanceType |-> "t2.micro"]]],
     [queue1 |-> [cr2 |-> [MinCount |-> 7]]]}

CreateFleetOverrideChoices ==
    {EmptyDict,
     [queue1 |-> [cr1 |-> [Type |-> "request"]]],
     [queue1 |-> [cr1 |-> [SpotOptions |-> [AllocationStrategy |-> "diversified"],
                           TagSpecifications |-> <<>>]]],
     [queue2 |-> [cr1 |-> [Type |-> "request"]]]}

JobIds == {None, "job-1"}

Call(config, q, cr, aon, n, rio, cfo, job, cap) ==
    [fleet_config |-> [queue1 |-> [cr1 |-> config]],
     queue |-> q, compute_resource |-> cr, all_or_nothing |-> aon, count |-> n,
     run_instances_overrides |-> rio, create_fleet_overrides |-> cfo,
     job_id |-> job, capacity |-> cap]

ShapingCalls ==
    {Call(config, "queue1", "cr1", aon, n, EmptyDict, cfo, job, 0) :
         config \in CompleteConfigs("create-fleet") \cup IncompleteConfigs("create-fleet"),
         aon \in BOOLEAN, n \in 1 .. MaxCount, cfo \in CreateFleetOverrideChoices, job \in JobIds}
    \cup
    {Call(ComputeResourceConfig("run-instances", "on-demand", 1, 1), "queue1", "cr1",
          aon, n, rio, EmptyDict, job, 0) :
         aon \in BOOLEAN, n \in 1 .. MaxCount, rio \in RunInstancesOverrideChoices, job \in JobIds}
    \cup
    {Call(config, q, cr, FALSE, 1, EmptyDict, EmptyDict, None, 0) :
         config \in {ComputeResourceConfig("spot-fleet", "spot", 1, 1),
                     DictWithout(ComputeResourceConfig("create-fleet", "spot", 1, 1), "Api"),
                     ComputeResourceConfig("create-fleet", "spot", 1, 1),
                     ComputeResourceConfig("run-instances", "spot", 1, 1)},
         q \in {"queue1", "queue2"}, cr \in {"cr1", "cr2"}}

ProviderCalls ==
    {Call(ComputeResourceConfig("run-instances", "spot", 1, 1), "queue1", "cr1", FALSE, MaxIds,
          EmptyDict, EmptyDict, job, MaxIds) : job \in JobIds}
    \cup
    {Call(ComputeResourceConfig("create-fleet", "spot", 1, 1), "queue1", "cr1", FALSE, MaxIds,
          EmptyDict, EmptyDict, "job-1", MaxIds)}

Calls == ShapingCalls \cup ProviderCalls

(***************************************************************************)
(* State                                                                   *)
(***************************************************************************)
VARIABLES
    pc,                       \* position in get_manager / launch_ec2_instances
    fleet_config, queue, compute_resource, all_or_nothing,
    run_instances_overrides, create_fleet_overrides,   \* arguments of get_manager
    count, job_id,            \* arguments of launch_ec2_instances
    capacity,                 \* instances the provider can launch
    manager,                  \* the FleetManager get_manager returned
    launch_params,            \* local of launch_ec2_instances
    launch_calls,             \* the kwargs of each run_instances / create_fleet call
    launch_error,             \* what the launch call raised
    assigned_nodes,           \* local of launch_ec2_instances
    result,                   \* the list launch_ec2_instances returned
    error,                    \* the exception that left get_manager / launch_ec2_instances
    logs,                     \* records emitted by the module's logger
    log_filter,               \* JobID value of the logging filter on the logger, None without
    instance_ids,             \* argument of _get_instances_info
    instances, partial_instance_ids, attempt_count,    \* locals of _get_instances_info
    sleep_count, last_sleep,  \* the time.sleep calls of _get_instances_info: how many, and
                              \* the duration of the last one
    describe_count,           \* describe_instances queries made
    last_query,               \* InstanceIds of the last describe_instances query
    describe_faults,          \* describe_instances queries that raised ClientError
    describe_seen             \* kinds of answers the describe queries have given

inputs == <<fleet_config, queue, compute_resource, all_or_nothing,
            run_instances_overrides, create_fleet_overrides, count, job_id, capacity>>
reconciliation == <<instance_ids, instances, partial_instance_ids, attempt_count,
                    sleep_count, last_sleep, describe_count, last_query, describe_faults,
                    describe_seen>>
vars == <<pc, inputs, manager, launch_params, launch_calls, launch_error, assigned_nodes,
          result, error, logs, log_filter, reconciliation>>

\* the records logger.<level>(msg) emits for each [level, msg] of `emitted`,
\* under a logging filter whose JobID value is `tag`
Emit(emitted, tag) == {[level |-> e.level, msg |-> e.msg, JobID |-> tag] : e \in emitted}

Init ==
    /\ \E c \in Calls :
        /\ fleet_config = c.fleet_config
        /\ queue = c.queue
        /\ compute_resource = c.compute_resource
        /\ all_or_nothing = c.all_or_nothing
        /\ run_instances_overrides = c.run_instances_overrides
        /\ create_fleet_overrides = c.create_fleet_overrides
        /\ count = c.count
        /\ job_id = c.job_id
        /\ capacity = c.capacity
    /\ pc = "get_manager"
    /\ manager = NoManager
    /\ launch_params = EmptyDict
    /\ launch_calls = <<>>
    /\ launch_error = None
    /\ assigned_nodes = EmptyDict
    /\ result = <<>>
    /\ error = None
    /\ logs = {}
    /\ log_filter = None
    /\ instance_ids = <<>>
    /\ instances = <<>>
    /\ partial_instance_ids = <<>>
    /\ attempt_count = 0
    /\ sleep_count = 0
    /\ last_sleep = 0
    /\ describe_count = 0
    /\ last_query = <<>>
    /\ describe_faults = 0
    /\ describe_seen = {}

(***************************************************************************)
(* Actions                                                                 *)
(***************************************************************************)
\* FleetManagerFactory.get_manager(...)
GetManager ==
    /\ pc = "get_manager"
    /\ LET r == get_manager(fleet_config, queue, compute_resource, all_or_nothing,
                            run_instances_overrides, create_fleet_overrides)
       IN IF r.raised # None
          THEN /\ error' = r.raised
               /\ logs' = IF r.msg = "Unsupported Api" THEN logs
                          ELSE logs \cup Emit({[level |-> "ERROR", msg |-> r.msg]}, log_filter)
               /\ pc' = "raised"
               /\ UNCHANGED manager
          ELSE /\ manager' = r.manager
               /\ pc' = "launch_ec2_instances"
               /\ UNCHANGED <<error, logs>>
    /\ UNCHANGED <<inputs, launch_params, launch_calls, launch_error, assigned_nodes,
                   result, log_filter, reconciliation>>

\* launch_ec2_instances, lines 169-174: the logging filter is set up when a
\* job_id is given, then the launch parameters are evaluated; an exception
\* leaves the with block, which removes the filter
EvaluateLaunchParams ==
    /\ pc = "launch_ec2_instances"
    /\ LET tag == IF job_id # None THEN job_id ELSE log_filter
           r == evaluate_launch_params(manager, count)
       IN /\ logs' = logs \cup Emit(r.logs, tag)
          /\ IF r.raised # None
             THEN /\ error' = r.raised
                  /\ log_filter' = None
                  /\ pc' = "raised"
                  /\ UNCHANGED launch_params
             ELSE /\ launch_params' = r.launch_params
                  /\ log_filter' = tag
                  /\ pc' = "_launch_instances"
                  /\ UNCHANGED error
    /\ UNCHANGED <<inputs, manager, launch_calls, launch_error, assigned_nodes, result,
                   reconciliation>>

\* what the launch call can do: raise ClientError, whose response holds
\* "ResponseMetadata" or not, or launch `launched` instances
LaunchOutcomes(least) ==
    {[fault |-> TRUE, metadata |-> b, launched |-> 0] : b \in BOOLEAN}
    \cup {[fault |-> FALSE, metadata |-> TRUE, launched |-> n] : n \in least .. capacity}

\* Ec2RunInstancesManager._launch_instances, with run_instances (lines 437-451)
RunInstancesLaunch ==
    /\ pc = "_launch_instances"
    /\ manager.class = "Ec2RunInstancesManager"
    /\ launch_calls' = Append(launch_calls, launch_params)
    /\ \E o \in LaunchOutcomes(1) : \E response \in InstanceLists(o.launched) :
        LET called == Emit({[level |-> "INFO", msg |-> "Launching instances with run_instances API"]},
                           log_filter)
        IN IF o.fault
           THEN \* line 234: e.response.get("ResponseMetadata") is None without the key
                /\ launch_error' = "ClientError"
                /\ error' = IF o.metadata THEN "ClientError" ELSE "AttributeError"
                /\ logs' = logs \cup called \cup
                           (IF o.metadata
                            THEN Emit({[level |-> "ERROR", msg |-> "Failed RunInstances request"]},
                                      log_filter)
                            ELSE {})
                /\ log_filter' = None
                /\ pc' = "raised"
                /\ UNCHANGED assigned_nodes
           ELSE /\ assigned_nodes' = [Instances |-> response]
                /\ logs' = logs \cup called
                /\ pc' = "launched"
                /\ UNCHANGED <<launch_error, error, log_filter>>
    /\ UNCHANGED <<inputs, manager, launch_params, result, reconciliation>>

\* the "Instances" of a create_fleet response that launched the first n ids
FleetInstances(n, grouped) ==
    IF n = 0 THEN <<>>
    ELSE IF grouped THEN <<[InstanceIds |-> [k \in 1 .. n |-> InstanceId(k)]]>>
    ELSE [k \in 1 .. n |-> [InstanceIds |-> <<InstanceId(k)>>]]

\* Ec2CreateFleetManager._launch_instances, lines 358-374, with create_fleet
\* (lines 454-468), up to the first loop test of _get_instances_info
\* (lines 390-396)
CreateFleetLaunch ==
    /\ pc = "_launch_instances"
    /\ manager.class = "Ec2CreateFleetManager"
    /\ launch_calls' = Append(launch_calls, launch_params)
    /\ \E o \in LaunchOutcomes(0) : \E grouped \in BOOLEAN :
        LET called == Emit({[level |-> "INFO", msg |-> "Launching instances with create_fleet API"]},
                           log_filter)
            groups == FleetInstances(o.launched, grouped)
            \* the response lists "Errors" when the fleet is short of the target
            reported == IF o.launched < count
                        THEN {[level |-> IF groups # <<>> THEN "WARNING" ELSE "ERROR",
                               msg |-> "Error in CreateFleet request"]}
                        ELSE {}
        IN IF o.fault
           THEN /\ launch_error' = "ClientError"
                /\ error' = "ClientError"
                /\ logs' = logs \cup called \cup
                           Emit({[level |-> "ERROR", msg |-> "Failed CreateFleet request"]}, log_filter)
                /\ log_filter' = None
                /\ pc' = "raised"
                /\ UNCHANGED reconciliation
           ELSE /\ logs' = logs \cup called \cup
                           Emit({[level |-> "DEBUG", msg |-> "CreateFleet response"]} \cup reported,
                                log_filter)
                /\ instance_ids' = FlattenInstanceIds(groups)
                /\ instances' = <<>>
                /\ partial_instance_ids' = instance_ids'
                /\ attempt_count' = 0
                /\ sleep_count' = 1
                /\ last_sleep' = InitialWaitMs
                /\ pc' = "_get_instances_info"
                /\ UNCHANGED <<launch_error, error, log_filter, describe_count, last_query,
                               describe_faults, describe_seen>>
    /\ UNCHANGED <<inputs, manager, launch_params, assigned_nodes, result>>

\* one iteration of the while loop of _get_instances_info (lines 397-402),
\* with the call of _retrieve_instances_info_from_ec2 (lines 406-434)
GetInstancesInfoAttempt ==
    /\ pc = "_get_instances_info"
    /\ LoopGuard(attempt_count, partial_instance_ids)
    /\ \E response \in DescribeResponses(partial_instance_ids),
          jitter \in (IF SleepsAfter(attempt_count + 1) THEN Jitters ELSE {0}) :
       \E fault_at \in FaultPositions(response, describe_faults) :
        LET r == retrieve_instances_info_from_ec2(partial_instance_ids, response, fault_at)
            partial == [level |-> "DEBUG", msg |-> "Unable to retrieve instance info"]
            missing == [level |-> "ERROR", msg |-> "Unable to retrieve EC2 instance info"]
        IN /\ describe_count' = describe_count + 1
           /\ last_query' = partial_instance_ids
           /\ describe_faults' = IF fault_at # NoFault THEN describe_faults + 1
                                 ELSE describe_faults
           /\ describe_seen' = describe_seen \cup Seen(partial_instance_ids, response, fault_at)
           /\ logs' = logs \cup
                      Emit((IF "missing_field" \in Seen(partial_instance_ids, response, fault_at)
                            THEN {partial, missing} ELSE {})
                           \cup (IF fault_at # NoFault THEN {partial} ELSE {}),
                           log_filter)
           /\ instances' = instances \o r.complete_instances
           /\ partial_instance_ids' = r.partial_instance_ids
           /\ attempt_count' = attempt_count + 1
           /\ IF SleepsAfter(attempt_count')
              THEN /\ sleep_count' = sleep_count + 1
                   /\ last_sleep' = Backoff(attempt_count', jitter)
              ELSE UNCHANGED <<sleep_count, last_sleep>>
    /\ UNCHANGED <<pc, inputs, manager, launch_params, launch_calls, launch_error,
                   assigned_nodes, result, error, log_filter, instance_ids>>

\* the return of _get_instances_info (line 404) and the rest of
\* Ec2CreateFleetManager._launch_instances (lines 375-378)
GetInstancesInfoReturn ==
    /\ pc = "_get_instances_info"
    /\ ~LoopGuard(attempt_count, partial_instance_ids)
    /\ logs' = IF partial_instance_ids # <<>>
               THEN logs \cup Emit({[level |-> "ERROR",
                                     msg |-> "Unable to retrieve instance info for instances"]},
                                   log_filter)
               ELSE logs
    /\ assigned_nodes' = [Instances |-> instances]
    /\ pc' = "launched"
    /\ UNCHANGED <<inputs, manager, launch_params, launch_calls, launch_error, result,
                   error, log_filter, reconciliation>>

\* launch_ec2_instances, lines 176-181, and the end of the with block, which
\* removes the logging filter
LogLaunched ==
    /\ pc = "launched"
    /\ logs' = IF Len(assigned_nodes["Instances"]) > 0
               THEN logs \cup Emit({[level |-> "INFO", msg |-> "Launched the following instances"],
                                    [level |-> "DEBUG", msg |-> "Full launched instances information"]},
                                   log_filter)
               ELSE logs
    /\ log_filter' = None
    /\ pc' = "with_exited"
    /\ UNCHANGED <<inputs, manager, launch_params, launch_calls, launch_error,
                   assigned_nodes, result, error, reconciliation>>

\* launch_ec2_instances, line 183
MapInstances ==
    /\ pc = "with_exited"
    /\ LET infos == assigned_nodes["Instances"]
       IN IF \E i \in DOMAIN infos : from_describe_instance_data(infos[i]).raised # None
          THEN /\ error' = "KeyError"
               /\ logs' = logs \cup Emit({[level |-> "ERROR",
                                           msg |-> "Unable to retrieve EC2 instance info"]},
                                         log_filter)
               /\ pc' = "raised"
               /\ UNCHANGED result
          ELSE /\ result' = [i \in DOMAIN infos |-> from_describe_instance_data(infos[i]).instance]
               /\ pc' = "returned"
               /\ UNCHANGED <<error, logs>>
    /\ UNCHANGED <<inputs, manager, launch_params, launch_calls, launch_error,
                   assigned_nodes, log_filter, reconciliation>>

Next ==
    \/ GetManager
    \/ EvaluateLaunchParams
    \/ RunInstancesLaunch
    \/ CreateFleetLaunch
    \/ GetInstancesInfoAttempt
    \/ GetInstancesInfoReturn
    \/ LogLaunched
    \/ MapInstances

Spec == Init /\ [][Next]_vars

\* a call in progress is never suspended: every step of the single thread is taken
FairSpec == Spec /\ WF_vars(Next)

(***************************************************************************)
(* Properties                                                              *)
(***************************************************************************)
IsRunInstances == manager.class = "Ec2RunInstancesManager"
IsCreateFleet == manager.class = "Ec2CreateFleetManager"

\* _get_instances_info has returned
Reconciled == IsCreateFleet /\ DOMAIN assigned_nodes # {}

\* launch_ec2_instances has returned or raised
CallEnded == pc \in {"returned", "raised"}

\* C1: when, of the K ids, some resolve on attempt 1 and all the others on
\* attempt 2 (no fault, no id missing from an answer), _get_instances_info
\* returns all K complete and none unresolved after exactly 2 describe
\* queries, and sleeps only before the first query and between the two
\* queries: not after the second.
C1_EarlyExitWithoutSleep ==
    ( /\ Reconciled
      /\ instance_ids # <<>>
      /\ attempt_count = 2
      /\ describe_faults = 0
      /\ "absent" \notin describe_seen
      /\ partial_instance_ids = <<>> )
    => /\ SeqToSet(InstanceIdsOf(instances)) = SeqToSet(instance_ids)
       /\ Len(instances) = Len(instance_ids)
       /\ describe_count = 2
       /\ sleep_count = 2

C3_OneRecordPerResolvedId ==
    IsCreateFleet =>
        /\ error # "KeyError"
        /\ pc = "returned" =>
              /\ Len(result) <= Len(instance_ids)
              /\ \A k \in 1 .. MaxIds :
                    Occurrences([i \in DOMAIN result |-> result[i].id], InstanceId(k))
                    = IF /\ InstanceId(k) \in SeqToSet(InstanceIdsOf(instances))
                         /\ InstanceId(k) \notin SeqToSet(partial_instance_ids)
                      THEN 1 ELSE 0

C5_LaunchFaultPropagates ==
    launch_error # None =>
        /\ pc = "raised"
        /\ error = launch_error
        /\ Len(launch_calls) = 1
        /\ describe_count = 0
        /\ result = <<>>

\* C6: with a job_id, every record logged inside launch_ec2_instances carries
\* it, and the filter is gone once the call has ended.
C6_LogsTaggedDuringCall ==
    (job_id # None /\ manager # NoManager) =>
        /\ \A r \in logs : r.JobID = job_id
        /\ CallEnded => log_filter = None

\* the compute resource config the call is about
TheConfig == fleet_config[queue][compute_resource]

\* the capacity options of a create-fleet request
CapacityOptions(request) ==
    IF "SpotOptions" \in DOMAIN request THEN request["SpotOptions"]
    ELSE request["OnDemandOptions"]

SingleInstanceTypeOrSubnet(config) ==
    \/ Len(config["Instances"]) = 1
    \/ /\ "Networking" \in DOMAIN config
       /\ "SubnetIds" \in DOMAIN config["Networking"]
       /\ Len(config["Networking"]["SubnetIds"]) = 1

\* C7: without overrides, the capacity options of a shaped create-fleet
\* request hold MinTargetCapacity exactly when the resource has one instance
\* type or one subnet id; its value is count under all-or-nothing and 1
\* otherwise; with neither and all-or-nothing, it is absent and the warning
\* is logged.
C7_MinTargetCapacityAdmission ==
    ( /\ IsCreateFleet
      /\ DOMAIN manager._launch_overrides = {}
      /\ DOMAIN launch_params # {} )
    => LET options == CapacityOptions(launch_params)
       IN /\ "MinTargetCapacity" \in DOMAIN options <=> SingleInstanceTypeOrSubnet(TheConfig)
          /\ "MinTargetCapacity" \in DOMAIN options
                => options["MinTargetCapacity"] = IF all_or_nothing THEN count ELSE 1
          /\ (~SingleInstanceTypeOrSubnet(TheConfig) /\ all_or_nothing)
                => \E r \in logs : r.level = "WARNING" /\ r.msg = AllOrNothingWarning

C7_Witness ==
    /\ IsCreateFleet
    /\ DOMAIN manager._launch_overrides = {}
    /\ DOMAIN launch_params # {}
    /\ all_or_nothing
    /\ count > 1
    /\ Len(TheConfig["Instances"]) = 1
    /\ Len(TheConfig["Networking"]["SubnetIds"]) > 1
    /\ CapacityOptions(launch_params)["MinTargetCapacity"] = count

\* C8: when the queue and the compute resource exist, get_manager returns a
\* run-instances manager for Api "run-instances", a create-fleet manager for
\* Api "create-fleet", and raises FleetManagerException, returning no
\* manager, otherwise.
C8_SelectorDispatch ==
    ( /\ pc # "get_manager"
      /\ queue \in DOMAIN fleet_config
      /\ compute_resource \in DOMAIN fleet_config[queue] )
    => LET api == DictGet(TheConfig, "Api", None)
       IN /\ api = "run-instances" => IsRunInstances
          /\ api = "create-fleet" => IsCreateFleet
          /\ api \notin {"run-instances", "create-fleet"}
                => /\ manager = NoManager
                   /\ error = "FleetManagerException"
                   /\ pc = "raised"

C8_Witness ==
    /\ pc = "launch_ec2_instances"
    /\ TheConfig["Api"] = "create-fleet"
    /\ IsCreateFleet

\* the override mapping the caller gave for the manager's strategy, queue and
\* compute resource
CallerOverrides ==
    DictGet(DictGet(IF IsRunInstances THEN run_instances_overrides ELSE create_fleet_overrides,
                    queue, EmptyDict),
            compute_resource, EmptyDict)

\* the launch parameters the strategy computes before the overrides
ComputedParams ==
    IF IsRunInstances THEN RunInstancesDefaults(manager, count)
    ELSE CreateFleetDefaults(manager, count)

\* C9: the request of the launch call holds, for every key of the caller's
\* overrides, exactly the override's value, and for every computed key the
\* overrides do not name, the computed value.
C9_OverridesTakePrecedence ==
    Len(launch_calls) > 0 =>
        /\ \A k \in DOMAIN CallerOverrides :
              k \in DOMAIN launch_calls[1] /\ launch_calls[1][k] = CallerOverrides[k]
        /\ \A k \in DOMAIN ComputedParams \ DOMAIN CallerOverrides :
              k \in DOMAIN launch_calls[1] /\ launch_calls[1][k] = ComputedParams[k]

C9_Witness ==
    /\ Len(launch_calls) = 1
    /\ IsCreateFleet
    /\ DOMAIN CallerOverrides = {"Type"}
    /\ launch_calls[1]["Type"] = "request"
    /\ launch_calls[1]["TargetCapacitySpecification"]["TotalTargetCapacity"] = count

\* steps launch_ec2_instances can still take: the statements left, with one
\* loop iteration for each attempt left
StepsLeft ==
    CASE pc = "get_manager" -> retries + 6
      [] pc = "launch_ec2_instances" -> retries + 5
      [] pc = "_launch_instances" -> retries + 4
      [] pc = "_get_instances_info" -> 3 + (retries - attempt_count)
      [] pc = "launched" -> 2
      [] pc = "with_exited" -> 1
      [] OTHER -> 0

\* the guards of the actions: the statement at pc can run
CanStep ==
    /\ pc \in {"get_manager", "launch_ec2_instances", "_launch_instances",
               "_get_instances_info", "launched", "with_exited"}
    /\ pc = "_launch_instances" => IsRunInstances \/ IsCreateFleet
    /\ pc = "_get_instances_info" => IsCreateFleet

\* CanStep is no weaker than the enabling condition of Next
CanStepIsEnabled == CanStep => ENABLED Next

\* C10: the loop, and the call, always end: until the call has ended a step
\* can be taken and every step leaves fewer steps to take; the loop makes at
\* most 5 describe queries, one per attempt, none without unresolved ids, and
\* each query asks for the ids left unresolved by the attempt before it,
\* which are ids of the query before it.
C10_LoopTerminates ==
    /\ [](/\ describe_count <= 5
          /\ describe_count = attempt_count
          /\ instance_ids = <<>> => describe_count = 0
          /\ StepsLeft >= 0
          /\ CallEnded \/ CanStep)
    /\ [][ /\ StepsLeft' < StepsLeft
           /\ describe_count' # describe_count
              => /\ describe_count' = describe_count + 1
                 /\ partial_instance_ids # <<>>
                 /\ last_query' = partial_instance_ids
                 /\ SeqToSet(last_query') \subseteq SeqToSet(instance_ids)
                 /\ describe_count > 0 => SeqToSet(last_query') \subseteq SeqToSet(last_query) ]_vars

\* under FairSpec the call eventually ends
CallEventuallyEnds == <>CallEnded

C10_Witness ==
    /\ pc = "returned"
    /\ describe_count = 5
    /\ "absent" \in describe_seen
    /\ describe_faults > 0

\* C11: when _get_instances_info has returned, every input id is either the
\* id of one complete description or one unresolved id, never both, never
\* twice and never neither, and no other id is in either result.
C11_IdConservation ==
    Reconciled =>
        /\ \A k \in 1 .. MaxIds :
              Occurrences(InstanceIdsOf(instances), InstanceId(k))
              + Occurrences(partial_instance_ids, InstanceId(k))
              = IF InstanceId(k) \in SeqToSet(instance_ids) THEN 1 ELSE 0
        /\ Len(instances) + Len(partial_instance_ids) = Len(instance_ids)

====
